---------------------------- MODULE Spec2Model ----------------------------
(***************************************************************************)
(* Model of src/backend/env/storage.rs: the segment allocator over stable  *)
(* memory (Allocator::alloc / Allocator::free), the root persistence layer *)
(* (heap_to_stable / stable_to_heap) and the bucket store                  *)
(* (Storage::allocate_space / Storage::write_to_bucket).                   *)
(***************************************************************************)
EXTENDS Integers, Sequences, FiniteSets, TLC

(***************************************************************************)
(* Program constants.                                                      *)
(***************************************************************************)
\* const INITIAL_OFFSET: u64 = 16
INITIAL_OFFSET == 16
\* the shift in `stable64_size() << 16` and `stable64_grow(n >> 16)`
PAGE_SHIFT == 16
\* All offsets and sizes are u64 in the source; the values of this model stay
\* below 2^31, so no addition wraps and the arithmetic is left unbounded.

(***************************************************************************)
(* Bounds of the model.                                                    *)
(***************************************************************************)
\* the frontier may advance at most this far past the boundary of Init
MaxExtent == 16
\* number of operations in one behaviour of the persistence runs
MaxOps == 4
\* number of operations in one behaviour of the seeded runs
MaxSeededOps == 3

\* the sizes requested from alloc by the callers of the model
AllocSizes == {4, 8, 10, 16}

VARIABLES
    segments,     \* Allocator.segments : BTreeMap<u64, u64>, start -> size
    boundary,     \* Allocator.boundary
    hooks,        \* Allocator.mem_grow / mem_size: "stable", "test" or "none"
    MEM_END,      \* the counter behind the closures of test_allocator
    pages,        \* stable64_size(), in pages
    mem,          \* stable memory contents, address -> byte (0 where absent)
    buckets,      \* Storage.buckets : BTreeMap<Principal, u64>
    allocated,    \* blocks handed out by alloc and not yet freed: {<<offset, size>>}
    origin,       \* boundary of the initial state (anchors MaxExtent)
    pc,           \* position inside heap_to_stable: "idle", "hdr_offset", "hdr_len"
    snap,         \* (offset, len) returned by storage.write inside heap_to_stable
    writes,       \* stable64_write calls of the current / last heap_to_stable
    header0,      \* (root_offset, root_length) read from the header when the
                  \* current / last heap_to_stable started
    committed,    \* root object of the last completed heap_to_stable
    ops,          \* number of operations started (bounded runs only)
    last,         \* the last operation, its arguments and its outcome
    req,          \* the write_to_bucket calls: position, shard, blob length,
                  \* response and remote calls issued so far
    remote        \* the shards created so far: installed?, end of data

avars == <<segments, boundary, hooks, MEM_END, pages, mem, buckets, allocated,
           origin, pc, snap, writes, header0, committed, ops, last>>

bvars == <<req, remote>>

vars == <<avars, bvars>>

(***************************************************************************)
(* BTreeMap helpers.                                                       *)
(***************************************************************************)
EmptyMap == <<>>

Insert(m, k, v) == [x \in (DOMAIN m) \cup {k} |-> IF x = k THEN v ELSE m[x]]

Remove(m, k) == [x \in (DOMAIN m) \ {k} |-> m[x]]

Min(S) == CHOOSE x \in S : \A y \in S : x <= y

Max(S) == CHOOSE x \in S : \A y \in S : x >= y

\* the keys of a BTreeMap in iteration order
RECURSIVE Keys(_)
Keys(S) == IF S = {} THEN <<>> ELSE <<Min(S)>> \o Keys(S \ {Min(S)})

(***************************************************************************)
(* The injected backing-store closures.                                    *)
(***************************************************************************)
\* mem_size: `|| stable64_size() << 16` in production, MEM_END in the test
mem_size(h, pg, me) == IF h = "stable" THEN pg * 2 ^ PAGE_SHIFT ELSE me

\* mem_grow: `stable64_grow(n >> 16)` in production: the new page count
grow_pages(pg, n) == pg + (n \div 2 ^ PAGE_SHIFT)

\* mem_grow: `MEM_END += n` in the test: the new counter
grow_test(me, n) == me + n

(***************************************************************************)
(* Allocator::alloc                                                        *)
(***************************************************************************)
\* the loop without its `break`
RECURSIVE scan_no_break(_, _, _, _)
scan_no_break(segs, keys, n, candidates) ==
    IF keys = <<>> THEN candidates
    ELSE LET start == Head(keys)
             size  == segs[start]
             c     == IF size >= n THEN Insert(candidates, size, start)
                      ELSE candidates
         IN  scan_no_break(segs, Tail(keys), n, c)

\* the loop over self.segments: candidates maps size -> start, a later
\* segment of the same size replaces an earlier one, the loop stops after
\* the first exact-size segment
RECURSIVE scan(_, _, _, _)
scan(segs, keys, n, candidates) ==
    IF keys = <<>> THEN candidates
    ELSE LET start == Head(keys)
             size  == segs[start]
             c     == IF size >= n THEN Insert(candidates, size, start)
                      ELSE candidates
         IN  IF size = n THEN c ELSE scan(segs, Tail(keys), n, c)

\* a rest segment that keeps the size of the whole segment
new_segment_full_size(start, size, n) ==
    IF n < size THEN <<start + n, size>> ELSE <<>>

\* line 165: `(n < **size).then_some((**start + n, **size - n))`
new_segment(start, size, n) ==
    IF n < size THEN <<start + n, size - n>> ELSE <<>>

\* alloc that calls mem_grow on every frontier allocation, without the
\* comparison of line 171
alloc_grow_always(segs, bnd, h, pg, me, n) ==
    LET candidates == scan(segs, Keys(DOMAIN segs), n, EmptyMap)
        found == DOMAIN candidates # {}
        size  == Min(DOMAIN candidates)
        start == IF found THEN candidates[size] ELSE bnd
        bnd2  == IF found THEN bnd ELSE bnd + n
        grows == ~found
        new   == IF found THEN new_segment(start, size, n) ELSE <<>>
        rest  == Remove(segs, start)
    IN  [start    |-> start,
         segments |-> IF new # <<>> THEN Insert(rest, new[1], new[2]) ELSE rest,
         boundary |-> bnd2,
         pages    |-> IF grows /\ h = "stable" THEN grow_pages(pg, n) ELSE pg,
         MEM_END  |-> IF grows /\ h = "test" THEN grow_test(me, n) ELSE me,
         grow     |-> IF grows THEN 1 ELSE 0,
         found    |-> found]

\* the result of alloc(n) on (segs, bnd) with the closures h:
\* the offset returned, the new free list, boundary and backing store, and
\* the number of grow calls issued
alloc(segs, bnd, h, pg, me, n) ==
    LET candidates == scan(segs, Keys(DOMAIN segs), n, EmptyMap)
        found == DOMAIN candidates # {}
        size  == Min(DOMAIN candidates)
        start == IF found THEN candidates[size] ELSE bnd
        bnd2  == IF found THEN bnd ELSE bnd + n
        grows == ~found /\ bnd2 >= mem_size(h, pg, me)
        new   == IF found THEN new_segment(start, size, n) ELSE <<>>
        rest  == Remove(segs, start)
    IN  [start    |-> start,
         segments |-> IF new # <<>> THEN Insert(rest, new[1], new[2]) ELSE rest,
         boundary |-> bnd2,
         pages    |-> IF grows /\ h = "stable" THEN grow_pages(pg, n) ELSE pg,
         MEM_END  |-> IF grows /\ h = "test" THEN grow_test(me, n) ELSE me,
         grow     |-> IF grows THEN 1 ELSE 0,
         found    |-> found]

(***************************************************************************)
(* Allocator::free                                                         *)
(***************************************************************************)
\* self.segments.range(..offset).last()
left_segment(segs, offset) ==
    LET below == {s \in DOMAIN segs : s < offset}
    IN  IF below = {} THEN <<>> ELSE <<Max(below), segs[Max(below)]>>

\* self.segments.range(offset + size..).next()
right_segment(segs, offset, size) ==
    LET above == {s \in DOMAIN segs : s >= offset + size}
    IN  IF above = {} THEN <<>> ELSE <<Min(above), segs[Min(above)]>>

\* free without the arm that extends the left neighbour
free_no_left_merge(segs, offset, size) ==
    LET l == left_segment(segs, offset)
        r == right_segment(segs, offset, size)
        l_adj == l # <<>> /\ l[1] + l[2] = offset
        r_adj == r # <<>> /\ offset + size = r[1]
    IN  IF l_adj /\ r_adj
        THEN Insert(Remove(Remove(segs, l[1]), r[1]), l[1], l[2] + size + r[2])
        ELSE IF r_adj
        THEN Insert(Remove(segs, r[1]), offset, size + r[2])
        ELSE Insert(segs, offset, size)

\* free whose first arm leaves the right neighbour in place
free_forget_right(segs, offset, size) ==
    LET l == left_segment(segs, offset)
        r == right_segment(segs, offset, size)
        l_adj == l # <<>> /\ l[1] + l[2] = offset
        r_adj == r # <<>> /\ offset + size = r[1]
    IN  IF l_adj /\ r_adj
        THEN Insert(segs, l[1], l[2] + size)
        ELSE IF r_adj
        THEN Insert(Remove(segs, r[1]), offset, size + r[2])
        ELSE IF l_adj
        THEN Insert(segs, l[1], l[2] + size)
        ELSE Insert(segs, offset, size)

\* the free list after free(offset, size)
free(segs, offset, size) ==
    LET l == left_segment(segs, offset)
        r == right_segment(segs, offset, size)
        l_adj == l # <<>> /\ l[1] + l[2] = offset
        r_adj == r # <<>> /\ offset + size = r[1]
    IN  IF l_adj /\ r_adj
        THEN Insert(Remove(Remove(segs, l[1]), r[1]), l[1], l[2] + size + r[2])
        ELSE IF r_adj
        THEN Insert(Remove(segs, r[1]), offset, size + r[2])
        ELSE IF l_adj
        THEN Insert(segs, l[1], l[2] + size)
        ELSE Insert(segs, offset, size)

(***************************************************************************)
(* serde_cbor::to_vec of the root object.  derive(Serialize) writes a      *)
(* struct as a map from field name to value in declaration order and skips *)
(* mem_grow and mem_size; a BTreeMap is a definite-length map in key       *)
(* order; a u64 is an unsigned integer of the shortest width; a Principal  *)
(* is a byte string (one byte long in this model).                         *)
(***************************************************************************)
\* x.to_be_bytes(), w bytes wide
RECURSIVE to_be_bytes(_, _)
to_be_bytes(x, w) ==
    IF w = 0 THEN <<>> ELSE to_be_bytes(x \div 256, w - 1) \o <<x % 256>>

\* u64::from_be_bytes
RECURSIVE from_be_bytes(_)
from_be_bytes(b) ==
    IF b = <<>> THEN 0
    ELSE from_be_bytes(SubSeq(b, 1, Len(b) - 1)) * 256 + b[Len(b)]

\* initial byte of a data item: major type and argument (the 8-byte form
\* starts at 2^32, above every value of this model)
cbor_head(major, v) ==
    IF v < 24 THEN <<major * 32 + v>>
    ELSE IF v < 2 ^ 8 THEN <<major * 32 + 24>> \o to_be_bytes(v, 1)
    ELSE IF v < 2 ^ 16 THEN <<major * 32 + 25>> \o to_be_bytes(v, 2)
    ELSE <<major * 32 + 26>> \o to_be_bytes(v, 4)

cbor_text(t) == cbor_head(3, Len(t)) \o t

\* field names, as UTF-8
F_storage   == <<115, 116, 111, 114, 97, 103, 101>>
F_buckets   == <<98, 117, 99, 107, 101, 116, 115>>
F_allocator == <<97, 108, 108, 111, 99, 97, 116, 111, 114>>
F_segments  == <<115, 101, 103, 109, 101, 110, 116, 115>>
F_boundary  == <<98, 111, 117, 110, 100, 97, 114, 121>>

RECURSIVE cbor_u64_entries(_, _)
cbor_u64_entries(m, keys) ==
    IF keys = <<>> THEN <<>>
    ELSE cbor_head(0, Head(keys)) \o cbor_head(0, m[Head(keys)])
         \o cbor_u64_entries(m, Tail(keys))

RECURSIVE cbor_bucket_entries(_, _)
cbor_bucket_entries(m, keys) ==
    IF keys = <<>> THEN <<>>
    ELSE cbor_head(2, 1) \o <<Head(keys)>> \o cbor_head(0, m[Head(keys)])
         \o cbor_bucket_entries(m, Tail(keys))

\* struct Allocator { segments, boundary, #[serde(skip)] .. }
cbor_allocator(segs, bnd) ==
    cbor_head(5, 2)
    \o cbor_text(F_segments)
    \o cbor_head(5, Cardinality(DOMAIN segs))
    \o cbor_u64_entries(segs, Keys(DOMAIN segs))
    \o cbor_text(F_boundary) \o cbor_head(0, bnd)

\* struct Storage { buckets, allocator }
cbor_storage(bks, segs, bnd) ==
    cbor_head(5, 2)
    \o cbor_text(F_buckets)
    \o cbor_head(5, Cardinality(DOMAIN bks))
    \o cbor_bucket_entries(bks, Keys(DOMAIN bks))
    \o cbor_text(F_allocator) \o cbor_allocator(segs, bnd)

\* serde_cbor::to_vec(state), state.storage being the modelled field
to_vec(root) ==
    cbor_head(5, 1) \o cbor_text(F_storage)
    \o cbor_storage(root.buckets, root.segments, root.boundary)

(***************************************************************************)
(* T::from_bytes for the root object: the inverse walk over the bytes.     *)
(***************************************************************************)
\* the argument of the data item at i and the index after its head
read_head(b, i) ==
    LET info == b[i] % 32
    IN  IF info < 24 THEN [arg |-> info, next |-> i + 1]
        ELSE LET w == 2 ^ (info - 24)
             IN  [arg  |-> from_be_bytes(SubSeq(b, i + 1, i + w)),
                  next |-> i + 1 + w]

\* the index after the text or byte string at i
skip_string(b, i) == read_head(b, i).next + read_head(b, i).arg

RECURSIVE read_u64_entries(_, _, _, _)
read_u64_entries(b, i, n, acc) ==
    IF n = 0 THEN [val |-> acc, next |-> i]
    ELSE LET k == read_head(b, i)
             v == read_head(b, k.next)
         IN  read_u64_entries(b, v.next, n - 1, Insert(acc, k.arg, v.arg))

RECURSIVE read_bucket_entries(_, _, _, _)
read_bucket_entries(b, i, n, acc) ==
    IF n = 0 THEN [val |-> acc, next |-> i]
    ELSE LET k == read_head(b, i)
             v == read_head(b, k.next + k.arg)
         IN  read_bucket_entries(b, v.next, n - 1,
                                 Insert(acc, b[k.next], v.arg))

from_bytes(b) ==
    LET state   == read_head(b, 1)
        storage == read_head(b, skip_string(b, state.next))
        nbks    == read_head(b, skip_string(b, storage.next))
        bks     == read_bucket_entries(b, nbks.next, nbks.arg, EmptyMap)
        alloca  == read_head(b, skip_string(b, bks.next))
        nsegs   == read_head(b, skip_string(b, alloca.next))
        segs    == read_u64_entries(b, nsegs.next, nsegs.arg, EmptyMap)
        bnd     == read_head(b, skip_string(b, segs.next))
    IN  [buckets |-> bks.val, segments |-> segs.val, boundary |-> bnd.arg]

(***************************************************************************)
(* Stable memory.                                                          *)
(***************************************************************************)
stable64_read(m, offset, len) ==
    [i \in 1..len |-> IF offset + i - 1 \in DOMAIN m THEN m[offset + i - 1] ELSE 0]

stable64_write(m, offset, bytes) ==
    [a \in (DOMAIN m) \cup (offset..(offset + Len(bytes) - 1)) |->
        IF a >= offset /\ a < offset + Len(bytes) THEN bytes[a - offset + 1]
        ELSE m[a]]

\* a stable64_write past the current size traps
in_bounds(pg, offset, len) == offset + len <= pg * 2 ^ PAGE_SHIFT

heap_address(m) ==
    <<from_be_bytes(stable64_read(m, 0, 8)), from_be_bytes(stable64_read(m, 8, 8))>>

stable_to_heap(m) ==
    from_bytes(stable64_read(m, heap_address(m)[1], heap_address(m)[2]))

\* the part of the root object this file defines
Root == [buckets |-> buckets, segments |-> segments, boundary |-> boundary]

(***************************************************************************)
(* Operations on the live allocator.                                       *)
(***************************************************************************)
NoOp == [op |-> "init", n |-> 0, offset |-> 0, ret |-> 0, status |-> "ok",
         grow |-> 0, found |-> FALSE]

NoRoot == [root |-> [buckets |-> EmptyMap, segments |-> EmptyMap, boundary |-> 0],
           allocated |-> {}, valid |-> FALSE]

\* a.alloc(n) with the closures in place
Alloc(n) ==
    /\ pc = "idle"
    /\ hooks # "none"
    /\ LET r == alloc(segments, boundary, hooks, pages, MEM_END, n)
       IN  /\ segments' = r.segments
           /\ boundary' = r.boundary
           /\ pages' = r.pages
           /\ MEM_END' = r.MEM_END
           /\ allocated' = allocated \cup {<<r.start, n>>}
           /\ last' = [op |-> "alloc", n |-> n, offset |-> 0, ret |-> r.start,
                       status |-> "ok", grow |-> r.grow, found |-> r.found]
    /\ UNCHANGED <<hooks, mem, buckets, origin, pc, snap, writes, header0,
                   committed>>

\* a.alloc(n) on a deserialized allocator: mem_size is None, the unwrap in
\* line 171 or 186 panics and the call is rolled back
AllocPanic(n) ==
    /\ pc = "idle"
    /\ hooks = "none"
    /\ last' = [op |-> "alloc", n |-> n, offset |-> 0, ret |-> 0,
                status |-> "abort", grow |-> 0, found |-> FALSE]
    /\ UNCHANGED <<segments, boundary, hooks, MEM_END, pages, mem, buckets,
                   allocated, origin, pc, snap, writes, header0, committed>>

\* a.free(offset, size) of an outstanding block
Free(b) ==
    /\ pc = "idle"
    /\ hooks # "none"
    /\ b \in allocated
    /\ segments' = free(segments, b[1], b[2])
    /\ allocated' = allocated \ {b}
    /\ last' = [op |-> "free", n |-> b[2], offset |-> b[1], ret |-> 0,
                status |-> "ok", grow |-> 0, found |-> FALSE]
    /\ UNCHANGED <<boundary, hooks, MEM_END, pages, mem, buckets, origin, pc,
                   snap, writes, header0, committed>>

\* a.free(offset, size) on a deserialized allocator: the unwrap in line 232
\* panics and the call is rolled back
FreePanic(b) ==
    /\ pc = "idle"
    /\ hooks = "none"
    /\ b \in allocated
    /\ last' = [op |-> "free", n |-> b[2], offset |-> b[1], ret |-> 0,
                status |-> "abort", grow |-> 0, found |-> FALSE]
    /\ UNCHANGED <<segments, boundary, hooks, MEM_END, pages, mem, buckets,
                   allocated, origin, pc, snap, writes, header0, committed>>

(***************************************************************************)
(* heap_to_stable, one action per stable64_write, and stable_to_heap.      *)
(***************************************************************************)
\* Storage::write handed the temporary storage, whose bucket table is empty,
\* instead of the state
storage_write_own_storage(root, pg) ==
    LET buffer == to_vec([root EXCEPT !.buckets = EmptyMap])
        r == alloc(root.segments, root.boundary, "stable", pg, 0, Len(buffer))
    IN  [offset |-> r.start, len |-> Len(buffer), buffer |-> buffer,
         pages |-> r.pages, segments |-> r.segments, boundary |-> r.boundary]

\* lines 97-100: a default Storage receives copies of the live free list and
\* boundary; Storage::write serializes the state, allocates on the copy and
\* returns the buffer to write with its offset and length
storage_write(root, pg) ==
    LET buffer == to_vec(root)
        r == alloc(root.segments, root.boundary, "stable", pg, 0, Len(buffer))
    IN  [offset |-> r.start, len |-> Len(buffer), buffer |-> buffer,
         pages |-> r.pages, segments |-> r.segments, boundary |-> r.boundary]

\* heap_to_stable allocating on the allocator of the state itself instead
\* of the copy in the temporary storage
HeapToStableWrite_live_allocator ==
    /\ pc = "idle"
    /\ hooks # "test"
    /\ LET w == storage_write(Root, pages)
       IN  /\ in_bounds(w.pages, w.offset, w.len)
           /\ pages' = w.pages
           /\ mem' = stable64_write(mem, w.offset, w.buffer)
           /\ snap' = <<w.offset, w.len>>
           /\ writes' = <<<<w.offset, w.len>>>>
           /\ segments' = w.segments
           /\ boundary' = w.boundary
    /\ header0' = heap_address(mem)
    /\ pc' = "hdr_offset"
    /\ last' = [op |-> "persist", n |-> 0, offset |-> 0, ret |-> 0,
                status |-> "running", grow |-> 0, found |-> FALSE]
    /\ UNCHANGED <<hooks, MEM_END, buckets, allocated, origin, committed>>

HeapToStableWrite ==
    /\ pc = "idle"
    /\ hooks # "test"
    /\ LET w == storage_write(Root, pages)
       IN  /\ in_bounds(w.pages, w.offset, w.len)
           /\ pages' = w.pages
           /\ mem' = stable64_write(mem, w.offset, w.buffer)
           /\ snap' = <<w.offset, w.len>>
           /\ writes' = <<<<w.offset, w.len>>>>
    /\ header0' = heap_address(mem)
    /\ pc' = "hdr_offset"
    /\ last' = [op |-> "persist", n |-> 0, offset |-> 0, ret |-> 0,
                status |-> "running", grow |-> 0, found |-> FALSE]
    /\ UNCHANGED <<segments, boundary, hooks, MEM_END, buckets, allocated,
                   origin, committed>>

\* the stable64_write of line 77 reaches past the grown memory and traps;
\* the call is rolled back
HeapToStableTrap ==
    /\ pc = "idle"
    /\ hooks # "test"
    /\ LET w == storage_write(Root, pages)
       IN  ~in_bounds(w.pages, w.offset, w.len)
    /\ last' = [op |-> "persist", n |-> 0, offset |-> 0, ret |-> 0,
                status |-> "trap", grow |-> 0, found |-> FALSE]
    /\ UNCHANGED <<segments, boundary, hooks, MEM_END, pages, mem, buckets,
                   allocated, origin, pc, snap, writes, header0, committed>>

\* the two header writes in the other order: the length field first
HeapToStableOffset_len_first ==
    /\ pc = "hdr_offset"
    /\ mem' = stable64_write(mem, 8, to_be_bytes(snap[2], 8))
    /\ writes' = Append(writes, <<8, 8>>)
    /\ pc' = "hdr_len"
    /\ UNCHANGED <<segments, boundary, hooks, MEM_END, pages, buckets,
                   allocated, origin, snap, header0, committed, last>>

\* line 101: stable64_write(0, &offset.to_be_bytes())
HeapToStableOffset ==
    /\ pc = "hdr_offset"
    /\ mem' = stable64_write(mem, 0, to_be_bytes(snap[1], 8))
    /\ writes' = Append(writes, <<0, 8>>)
    /\ pc' = "hdr_len"
    /\ UNCHANGED <<segments, boundary, hooks, MEM_END, pages, buckets,
                   allocated, origin, snap, header0, committed, last>>

\* line 102: stable64_write(8, &len.to_be_bytes())
HeapToStableLen ==
    /\ pc = "hdr_len"
    /\ mem' = stable64_write(mem, 8, to_be_bytes(snap[2], 8))
    /\ writes' = Append(writes, <<8, 8>>)
    /\ pc' = "idle"
    /\ committed' = [root |-> Root, allocated |-> allocated, valid |-> TRUE]
    /\ last' = [last EXCEPT !.status = "ok"]
    /\ UNCHANGED <<segments, boundary, hooks, MEM_END, pages, buckets,
                   allocated, origin, snap, header0>>

\* stable_to_heap: the state read back replaces the live one; the skipped
\* fields mem_grow and mem_size come back as None
StableToHeap ==
    /\ pc = "idle"
    /\ hooks # "test"
    /\ heap_address(mem)[2] > 0
    /\ LET r == stable_to_heap(mem)
       IN  /\ segments' = r.segments
           /\ boundary' = r.boundary
           /\ buckets' = r.buckets
    /\ hooks' = "none"
    /\ allocated' = committed.allocated
    /\ last' = [op |-> "restore", n |-> 0, offset |-> 0, ret |-> 0,
                status |-> "ok", grow |-> 0, found |-> FALSE]
    /\ UNCHANGED <<MEM_END, pages, mem, origin, pc, snap, writes, header0,
                   committed>>

\* stable_to_heap before any heap_to_stable: the header is zero, from_bytes
\* gets no bytes and fails
StableToHeapFail ==
    /\ pc = "idle"
    /\ hooks # "test"
    /\ heap_address(mem)[2] = 0
    /\ last' = [op |-> "restore", n |-> 0, offset |-> 0, ret |-> 0,
                status |-> "abort", grow |-> 0, found |-> FALSE]
    /\ UNCHANGED <<segments, boundary, hooks, MEM_END, pages, mem, buckets,
                   allocated, origin, pc, snap, writes, header0, committed>>

(***************************************************************************)
(* The bucket store: Storage::allocate_space and Storage::write_to_bucket, *)
(* one action per stretch of code between two awaits.                      *)
(***************************************************************************)
\* CONFIG.max_bucket_size, the capacity of one shard
max_bucket_size == 100

\* write_to_bucket calls in one behaviour
NumCallers == 2
\* shards that canisters::new() can hand out
NumPrincipals == 3

Callers == 1..NumCallers
Principals == 1..NumPrincipals
BlobLens == {5, 10, 90}

\* no shard
None == 0

\* a call that has returned no longer holds its blob (len is 0 again)
NoCall == [pc |-> "new", id |-> None, len |-> 0, resp |-> 0, calls |-> <<>>]

\* a scan that skips the shards the blob does not fit into
find_fitting(bks, max, len) ==
    LET q == {id \in DOMAIN bks : bks[id] + len <= max}
    IN  IF q = {} THEN None ELSE Min(q)

\* a scan that returns the least used shard
find_least_used(bks, max, len) ==
    LET q == {id \in DOMAIN bks : bks[id] < max}
    IN  IF q = {} THEN None
        ELSE CHOOSE id \in q : \A o \in q : bks[id] <= bks[o]

\* lines 35-39: self.buckets.iter().find(|(_, size)| **size < max_bucket_size),
\* for a blob of len bytes
find(bks, max, len) ==
    LET q == {id \in DOMAIN bks : bks[id] < max}
    IN  IF q = {} THEN None ELSE Min(q)

\* write_to_bucket(blob) up to its first await: the scan of allocate_space,
\* then either call_raw(id, "write", ..) or canisters::new()
Start(r, len) ==
    /\ req[r].pc = "new"
    /\ LET id == find(buckets, max_bucket_size, len)
       IN  req' = [req EXCEPT ![r] =
                     IF id # None
                     THEN [pc |-> "writing", id |-> id, len |-> len,
                           resp |-> 0, calls |-> <<"write">>]
                     ELSE [pc |-> "creating", id |-> None, len |-> len,
                           resp |-> 0, calls |-> <<"new">>]]
    /\ UNCHANGED <<buckets, remote>>

\* allocate_space without line 45: the new record is inserted and the write
\* is issued with no installation in between
CreateOk_skip_install(r, id) ==
    /\ req[r].pc = "creating"
    /\ id \notin DOMAIN remote
    /\ remote' = Insert(remote, id, [installed |-> TRUE, end |-> 0])
    /\ buckets' = Insert(buckets, id, 0)
    /\ req' = [req EXCEPT ![r].pc = "writing", ![r].id = id,
                          ![r].calls = Append(@, "write")]

\* allocate_space with line 44 moved after the installation: the record is
\* not in the table while install is awaited
CreateOk_insert_after_install(r, id) ==
    /\ req[r].pc = "creating"
    /\ id \notin DOMAIN remote
    /\ remote' = Insert(remote, id, [installed |-> FALSE, end |-> 0])
    /\ req' = [req EXCEPT ![r].pc = "installing", ![r].id = id,
                          ![r].calls = Append(@, "install")]
    /\ UNCHANGED buckets

\* canisters::new() returned Ok(id): lines 43-45 up to the await of install
CreateOk(r, id) ==
    /\ req[r].pc = "creating"
    /\ id \notin DOMAIN remote
    /\ remote' = Insert(remote, id, [installed |-> FALSE, end |-> 0])
    /\ buckets' = Insert(buckets, id, 0)
    /\ req' = [req EXCEPT ![r].pc = "installing", ![r].id = id,
                          ![r].calls = Append(@, "install")]

\* canisters::new() returned Err: `?` returns it
CreateFail(r) ==
    /\ req[r].pc = "creating"
    /\ req' = [req EXCEPT ![r].pc = "failed", ![r].len = 0]
    /\ UNCHANGED <<buckets, remote>>

\* install returned Ok: lines 46-47, then line 64 up to the await of call_raw
InstallOk(r) ==
    /\ req[r].pc = "installing"
    /\ remote' = [remote EXCEPT ![req[r].id].installed = TRUE]
    /\ req' = [req EXCEPT ![r].pc = "writing", ![r].calls = Append(@, "write")]
    /\ UNCHANGED buckets

\* a failed installation that takes the record out of the table again
InstallFail_rollback(r) ==
    /\ req[r].pc = "installing"
    /\ req' = [req EXCEPT ![r].pc = "failed", ![r].len = 0]
    /\ buckets' = Remove(buckets, req[r].id)
    /\ UNCHANGED remote

\* install returned Err: `?` returns it, the record stays
InstallFail(r) ==
    /\ req[r].pc = "installing"
    /\ req' = [req EXCEPT ![r].pc = "failed", ![r].len = 0]
    /\ UNCHANGED <<buckets, remote>>

\* the shard executes the write: it appends the blob and answers with the
\* offset it stored it at
ShardWrite(r) ==
    /\ req[r].pc = "writing"
    /\ remote[req[r].id].installed
    /\ remote' = [remote EXCEPT ![req[r].id].end = @ + req[r].len]
    /\ req' = [req EXCEPT ![r].pc = "answered", ![r].resp = remote[req[r].id].end]
    /\ UNCHANGED buckets

\* call_raw returned Ok(response): lines 67-71
WriteOk(r) ==
    /\ req[r].pc = "answered"
    /\ buckets' = Insert(buckets, req[r].id, req[r].resp + req[r].len)
    /\ req' = [req EXCEPT ![r].pc = "done", ![r].len = 0]
    /\ UNCHANGED remote

\* a failed blob write that takes the record of the shard out of the table
WriteFail_drop_record(r) ==
    /\ req[r].pc = "writing"
    /\ req' = [req EXCEPT ![r].pc = "failed", ![r].len = 0]
    /\ buckets' = Remove(buckets, req[r].id)
    /\ UNCHANGED remote

\* call_raw returned Err (the shard has no code yet, or the call was
\* rejected): map_err and `?` return it
WriteFail(r) ==
    /\ req[r].pc = "writing"
    /\ req' = [req EXCEPT ![r].pc = "failed", ![r].len = 0]
    /\ UNCHANGED <<buckets, remote>>

\* the allocator and stable memory are not touched by the bucket store
Untouched ==
    UNCHANGED <<segments, boundary, hooks, MEM_END, pages, mem, allocated,
                origin, pc, snap, writes, header0, committed, ops, last>>

(***************************************************************************)
(* The allocator alone, from a fresh state: test_allocator's double and    *)
(* the production closures.                                                *)
(***************************************************************************)
\* pages of stable memory present at the start
InitPages == 1

\* bucket tables carried by the root object
InitBuckets == {EmptyMap, (1 :> 90) @@ (2 :> 10)}

Fresh ==
    /\ segments = EmptyMap
    /\ boundary = INITIAL_OFFSET
    /\ MEM_END = 16
    /\ pages = InitPages
    /\ allocated = {}
    /\ origin = INITIAL_OFFSET

\* no write_to_bucket call has started; every shard of the table is
\* installed and holds as much as the table says
NoCalls ==
    /\ req = [r \in Callers |-> NoCall]
    /\ remote = [id \in DOMAIN buckets |->
                    [installed |-> TRUE, end |-> buckets[id]]]

Quiet ==
    /\ NoCalls
    /\ mem = EmptyMap
    /\ pc = "idle"
    /\ snap = <<0, 0>>
    /\ writes = <<>>
    /\ header0 = <<0, 0>>
    /\ committed = NoRoot
    /\ ops = 0
    /\ last = NoOp

Init ==
    /\ Fresh
    /\ buckets = EmptyMap
    /\ Quiet
    /\ hooks \in {"stable", "test"}

\* the requests of the callers: the sizes of AllocSizes and the whole
\* managed range
Requests == AllocSizes \cup ({boundary - INITIAL_OFFSET} \ {0})

Next ==
    \/ \E n \in Requests :
          /\ Alloc(n)
          /\ boundary' <= origin + MaxExtent
          /\ UNCHANGED <<ops, bvars>>
    \/ \E b \in allocated : Free(b) /\ UNCHANGED <<ops, bvars>>

Spec == Init /\ [][Next]_vars

(***************************************************************************)
(* The allocator alone, from states further into a run: free lists with    *)
(* several candidates, and a boundary close to the end of the last page.   *)
(***************************************************************************)
\* one page, in bytes
PageBytes == 2 ^ PAGE_SHIFT

Seeds ==
    { [segments  |-> (100 :> 4) @@ (200 :> 10) @@ (300 :> 4),
       boundary  |-> 304,
       allocated |-> {<<16, 84>>, <<104, 96>>, <<210, 90>>}],
      [segments  |-> (100 :> 6) @@ (200 :> 10) @@ (300 :> 6),
       boundary  |-> 306,
       allocated |-> {<<16, 84>>, <<106, 94>>, <<210, 90>>}],
      [segments  |-> (100 :> 10) @@ (200 :> 4) @@ (300 :> 5),
       boundary  |-> 400,
       allocated |-> {<<16, 84>>, <<110, 90>>, <<204, 96>>, <<305, 95>>}],
      [segments  |-> EmptyMap,
       boundary  |-> PageBytes - 8,
       allocated |-> {<<16, PageBytes - 24>>}],
      [segments  |-> (16 :> 4),
       boundary  |-> PageBytes,
       allocated |-> {<<20, PageBytes - 20>>}] }

Seeded(sd) ==
    /\ segments = sd.segments
    /\ boundary = sd.boundary
    /\ allocated = sd.allocated
    /\ MEM_END = sd.boundary
    /\ pages = InitPages
    /\ origin = sd.boundary

InitSeeded ==
    /\ \E sd \in Seeds : Seeded(sd)
    /\ buckets = EmptyMap
    /\ Quiet
    /\ hooks \in {"stable", "test"}

\* sizes requested in the seeded runs: small ones, one page and more
SeededSizes == {4, 5, 10, PageBytes, PageBytes + 4}

\* one more operation of a bounded run
CountedTo(max) == ops < max /\ ops' = ops + 1 /\ UNCHANGED bvars

NextSeeded ==
    \/ \E n \in SeededSizes : Alloc(n) /\ CountedTo(MaxSeededOps)
    \/ \E b \in allocated : Free(b) /\ CountedTo(MaxSeededOps)

SpecSeeded == InitSeeded /\ [][NextSeeded]_vars

(***************************************************************************)
(* The persistence layer over a live allocator.                            *)
(***************************************************************************)
PersistSizes == {8}

PersistSeeds ==
    { [segments  |-> EmptyMap,
       boundary  |-> INITIAL_OFFSET,
       allocated |-> {}],
      [segments  |-> (116 :> 4),
       boundary  |-> 128,
       allocated |-> {<<16, 100>>, <<120, 8>>}],
      [segments  |-> EmptyMap,
       boundary  |-> PageBytes - 8,
       allocated |-> {<<16, PageBytes - 24>>}] }

InitPersist ==
    /\ \E sd \in PersistSeeds : Seeded(sd)
    /\ buckets \in InitBuckets
    /\ Quiet
    /\ hooks = "stable"

Counted == CountedTo(MaxOps)

NextPersist ==
    \/ \E n \in PersistSizes : Alloc(n) /\ Counted
    \/ \E n \in PersistSizes : AllocPanic(n) /\ Counted
    \/ \E b \in allocated : Free(b) /\ Counted
    \/ \E b \in allocated : FreePanic(b) /\ Counted
    \/ HeapToStableWrite /\ Counted
    \/ HeapToStableTrap /\ Counted
    \/ HeapToStableOffset /\ UNCHANGED <<ops, bvars>>
    \/ HeapToStableLen /\ UNCHANGED <<ops, bvars>>
    \/ StableToHeap /\ Counted
    \/ StableToHeapFail /\ Counted

SpecPersist == InitPersist /\ [][NextPersist]_vars

(***************************************************************************)
(* The bucket store under interleaved write_to_bucket calls.               *)
(***************************************************************************)
\* bucket tables at the start: the empty one and three that earlier calls
\* have filled (two calls that both provision a shard from the empty table
\* and write 90 and 10 bytes leave the first; one more write of 10 bytes,
\* routed to shard 1, leaves {1: 100, 2: 10}; one call that provisions a
\* shard and writes 90 bytes followed by one that writes 10 leaves {1: 100})
BucketSeeds ==
    {EmptyMap, (1 :> 90) @@ (2 :> 10), (1 :> 100) @@ (2 :> 10), (1 :> 100)}

InitBucketStore ==
    /\ Fresh
    /\ buckets \in BucketSeeds
    /\ Quiet
    /\ hooks = "stable"

\* the calls are interchangeable: they start in the order of their numbers
InOrder(r) == \A o \in Callers : o < r => req[o].pc # "new"

NextBuckets ==
    \/ \E r \in Callers, len \in BlobLens :
          /\ Start(r, len)
          /\ InOrder(r)
          /\ Untouched
    \/ \E r \in Callers, id \in Principals : CreateOk(r, id) /\ Untouched
    \/ \E r \in Callers : CreateFail(r) /\ Untouched
    \/ \E r \in Callers : InstallOk(r) /\ Untouched
    \/ \E r \in Callers : InstallFail(r) /\ Untouched
    \/ \E r \in Callers : ShardWrite(r) /\ Untouched
    \/ \E r \in Callers : WriteOk(r) /\ Untouched
    \/ \E r \in Callers : WriteFail(r) /\ Untouched

SpecBuckets == InitBucketStore /\ [][NextBuckets]_vars

(***************************************************************************)
(* Properties of the allocator.                                            *)
(***************************************************************************)
\* the free segments as a set of (start, size) pairs
FreeSegs == {<<s, segments[s]>> : s \in DOMAIN segments}

\* C1: after any sequence of alloc and valid free calls no two stored free
\* segments are adjacent: s1 + l1 # s2 for all stored (s1, l1), (s2, l2)
\* with s1 < s2.
C1_NoAdjacentSegments ==
    \A s1, s2 \in DOMAIN segments :
        s1 < s2 => s1 + segments[s1] # s2

\* a free has just merged its block into a neighbour and another free
\* segment is stored next to an outstanding block
C1_Witness ==
    /\ last.op = "free"
    /\ Cardinality(DOMAIN segments) >= 2
    /\ \E s \in DOMAIN segments :
          /\ s <= last.offset
          /\ s + segments[s] >= last.offset + last.n
          /\ segments[s] > last.n

\* the regions covering address a
Covering(a) ==
    {r \in FreeSegs \cup allocated : r[1] <= a /\ a < r[1] + r[2]}

\* C2: the free segments and the outstanding blocks tile [16, boundary):
\* every address of the range lies in exactly one free segment or exactly
\* one outstanding block, no region reaches past boundary or starts below
\* INITIAL_OFFSET, and a free segment and an outstanding block never
\* coincide.
C2_Tiling ==
    /\ \A a \in INITIAL_OFFSET..(boundary - 1) : Cardinality(Covering(a)) = 1
    /\ FreeSegs \cap allocated = {}
    /\ \A r \in FreeSegs \cup allocated :
          r[1] >= INITIAL_OFFSET /\ r[2] >= 1 /\ r[1] + r[2] <= boundary
    /\ (last.op = "alloc" /\ last.status = "ok") => last.ret >= INITIAL_OFFSET

\* an alloc has just split a free segment while another block is outstanding
\* and another one has been freed
C2_Witness ==
    /\ last.op = "alloc"
    /\ last.found
    /\ last.ret + last.n \in DOMAIN segments
    /\ Cardinality(allocated) >= 2
    /\ Cardinality(DOMAIN segments) >= 2

\* C5: once every outstanding block has been freed the free list is the
\* single segment (16, boundary - 16), and alloc(boundary - 16) then returns
\* 16 and leaves no free segment; with the blocks 8, 4, 4 of a fresh
\* allocator: free(24,4) leaves {(24,4)}, free(16,8) leaves {(16,12)},
\* free(28,4) leaves {(16,16)} and alloc(16) returns 16.
C5_FullCoalescing ==
    /\ (allocated = {} /\ boundary > INITIAL_OFFSET) =>
          segments = (INITIAL_OFFSET :> (boundary - INITIAL_OFFSET))
    /\ (/\ last.op = "alloc"
        /\ last.n = boundary - INITIAL_OFFSET
        /\ Cardinality(allocated) = 1) =>
          (last.ret = INITIAL_OFFSET /\ segments = EmptyMap)
    /\ (boundary = 32 /\ allocated = {<<16, 8>>, <<28, 4>>}) =>
          segments = (24 :> 4)
    /\ (boundary = 32 /\ allocated = {<<28, 4>>}) => segments = (16 :> 12)
    /\ (boundary = 32 /\ allocated = {}) => segments = (16 :> 16)

\* the last block of several has been freed, or the whole range has been
\* served again from the coalesced segment
C5_Witness ==
    \/ /\ last.op = "alloc" /\ last.found
       /\ last.n = 16 /\ last.ret = 16
       /\ boundary = 32 /\ segments = EmptyMap
    \/ /\ last.op = "free" /\ last.offset = 28 /\ last.n = 4
       /\ boundary = 32 /\ allocated = {}

\* a step of alloc that returned
AllocStep ==
    /\ last'.op = "alloc"
    /\ last'.status = "ok"
    /\ (segments' # segments \/ boundary' # boundary)

\* C4: when a free segment of length >= n exists, alloc(n) returns the start
\* of a free segment of minimal length among those of length >= n, the
\* lowest exact-size one when there is one, removes it and reinserts the
\* remainder (start + n, length - n) iff length > n; with the free list
\* {(100,4),(200,10),(300,4)}, alloc(4) returns 100 and leaves
\* {(200,10),(300,4)}.
C4_BestFit ==
    [][AllocStep =>
        LET n     == last'.n
            r     == last'.ret
            fit   == {s \in DOMAIN segments : segments[s] >= n}
            exact == {s \in DOMAIN segments : segments[s] = n}
        IN  /\ fit # {} =>
                /\ r \in fit
                /\ \A s \in fit : segments[r] <= segments[s]
                /\ exact # {} => r = Min(exact)
                /\ boundary' = boundary
                /\ segments' = IF segments[r] > n
                               THEN Insert(Remove(segments, r), r + n,
                                           segments[r] - n)
                               ELSE Remove(segments, r)
            /\ (segments = (100 :> 4) @@ (200 :> 10) @@ (300 :> 4) /\ n = 4) =>
                (r = 100 /\ segments' = (200 :> 10) @@ (300 :> 4))
    ]_vars

\* alloc(4) has just been served from {(100,4),(200,10),(300,4)}
C4_Witness ==
    /\ last.op = "alloc" /\ last.found
    /\ last.n = 4 /\ last.ret = 100
    /\ segments = (200 :> 10) @@ (300 :> 4)

\* C3: with the production backing store, boundary <= current_size() after
\* every alloc.
C3_BoundaryWithinMemory ==
    hooks = "stable" => boundary <= mem_size("stable", pages, MEM_END)

(***************************************************************************)
(* Properties of the persistence layer.                                    *)
(***************************************************************************)
\* C6: heap_to_stable(X) followed by stable_to_heap() yields X, the bucket
\* table, free list and boundary included; the header fields at 0 and 8 hold
\* the offset and length that Storage::write returned, and stable_to_heap
\* reads exactly that range.
C6_RoundTrip ==
    /\ (pc = "idle" /\ last.op = "persist" /\ last.status = "ok") =>
          /\ heap_address(mem) = snap
          /\ stable64_read(mem, snap[1], snap[2]) = to_vec(Root)
          /\ stable_to_heap(mem) = Root
    /\ (pc = "idle" /\ committed.valid) => stable_to_heap(mem) = committed.root
    /\ (last.op = "restore" /\ last.status = "ok") =>
          (committed.valid /\ Root = committed.root)

\* a state with a non-empty free list and a non-empty bucket table has been
\* written and read back
C6_Witness ==
    /\ last.op = "restore" /\ last.status = "ok"
    /\ segments # EmptyMap
    /\ buckets # EmptyMap
    /\ hooks = "none"

\* C7: the region a heap_to_stable call writes its snapshot to is disjoint
\* from the region the header designated when the call started.
C7_NewRegionDisjoint ==
    (pc \in {"hdr_offset", "hdr_len"} /\ header0[2] > 0) =>
        \/ snap[1] + snap[2] <= header0[1]
        \/ header0[1] + header0[2] <= snap[1]

\* C8: inside one heap_to_stable the snapshot is written first and whole, at
\* an offset >= 16, then the header field at 0, then the field at 8, and
\* nothing else is written: while the snapshot is in place the header is
\* still the one found at the start, after the first header write only the
\* offset field has changed.
C8_WriteOrder ==
    /\ pc = "hdr_offset" =>
          /\ writes = <<snap>>
          /\ heap_address(mem) = header0
          /\ stable64_read(mem, snap[1], snap[2]) = to_vec(Root)
    /\ pc = "hdr_len" =>
          /\ writes = <<snap, <<0, 8>>>>
          /\ heap_address(mem) = <<snap[1], header0[2]>>
          /\ stable64_read(mem, snap[1], snap[2]) = to_vec(Root)
    /\ (pc = "idle" /\ last.op = "persist" /\ last.status = "ok") =>
          /\ writes = <<snap, <<0, 8>>, <<8, 8>>>>
          /\ heap_address(mem) = snap
    /\ writes # <<>> =>
          /\ snap[1] >= INITIAL_OFFSET
          /\ snap[2] >= 1
          /\ writes[1] = snap

\* a heap_to_stable that found an earlier header is between its two header
\* writes
C8_Witness ==
    /\ pc = "hdr_len"
    /\ header0[2] > 0
    /\ header0 # snap

(***************************************************************************)
(* Properties of the bucket store.                                         *)
(***************************************************************************)
\* the step in which call r runs the scan of allocate_space
StartStep(r) == req[r].pc = "new" /\ req'[r].pc # "new"

\* the records with room left, as the scan sees them
Qualifying == {id \in DOMAIN buckets : buckets[id] < max_bucket_size}

\* the table of the shard selection scenario: A = 1 before B = 2
ScenarioTable == (1 :> 90) @@ (2 :> 10)

\* C9, as stated: with the records {(A, 90), (B, 10)} and capacity 100, a
\* write of 5 bytes selects shard B.
C9_SelectsShardB ==
    [][\A r \in Callers :
         (StartStep(r) /\ buckets = ScenarioTable /\ req'[r].len = 5) =>
             req'[r].id = 2
    ]_vars

\* C9, amended: with the records {(A, 90), (B, 10)} and capacity 100, a
\* write of 5 bytes selects shard A, the first record with used < capacity,
\* and goes on to the blob write.
C9_SelectsShardA ==
    [][\A r \in Callers :
         (StartStep(r) /\ buckets = ScenarioTable /\ req'[r].len = 5) =>
             (req'[r].id = 1 /\ req'[r].pc = "writing")
    ]_vars

\* a write of 5 bytes has run its scan on the scenario table
C9_Witness ==
    \E r \in Callers :
        /\ req[r].pc = "writing" /\ req[r].len = 5 /\ req[r].id = 1
        /\ buckets = ScenarioTable

\* C10: when some record has used_bytes < max_capacity, a write selects the
\* record with the smallest shard id among those, whatever the length of
\* the blob, changes neither the table nor the shards, and issues neither a
\* creation nor an installation call, then or later.
C10_FirstFit ==
    [][\A r \in Callers :
         /\ (StartStep(r) /\ Qualifying # {}) =>
               /\ req'[r].id = Min(Qualifying)
               /\ req'[r].pc = "writing"
               /\ req'[r].calls = <<"write">>
               /\ buckets' = buckets
               /\ remote' = remote
         /\ req[r].calls = <<"write">> => req'[r].calls = <<"write">>
    ]_vars

\* a blob that does not fit into the first record with room left has been
\* routed to it although a later record would hold it
C10_Witness ==
    \E r \in Callers :
        /\ req[r].pc = "writing" /\ req[r].calls = <<"write">>
        /\ req[r].id = 1 /\ req[r].len = 90
        /\ buckets[1] = 90
        /\ 2 \in DOMAIN buckets /\ buckets[2] + 90 <= max_bucket_size

\* no other call is between its scan and its return
Alone(r) ==
    \A o \in Callers \ {r} : req[o].pc \in {"new", "done", "failed"}

\* C11: a write_to_bucket call that runs alone and finds no record with
\* used_bytes < max_bucket_size issues one creation call, on its success
\* inserts the new record with used_bytes = 0 and issues one installation
\* call for it, and on the success of that issues the blob write to the new
\* shard, by then installed; no call issues a write after a creation
\* other than as the third call of new, install, write.
C11_SingleProvisioning ==
    [][\A r \in Callers :
         (Alone(r) /\ Alone(r)') =>
            /\ (StartStep(r) /\ Qualifying = {}) =>
                  /\ req'[r].pc = "creating"
                  /\ req'[r].calls = <<"new">>
                  /\ buckets' = buckets
            /\ (req[r].pc = "creating" /\ req'[r].pc # "creating") =>
                  \/ /\ req'[r].pc = "failed"
                     /\ req'[r].calls = <<"new">>
                     /\ buckets' = buckets
                  \/ /\ req'[r].pc = "installing"
                     /\ req'[r].calls = <<"new", "install">>
                     /\ req'[r].id \notin DOMAIN buckets
                     /\ buckets' = Insert(buckets, req'[r].id, 0)
            /\ (req[r].pc = "installing" /\ req'[r].pc # "installing") =>
                  \/ /\ req'[r].pc = "failed"
                     /\ req'[r].calls = <<"new", "install">>
                     /\ buckets' = buckets
                  \/ /\ req'[r].pc = "writing"
                     /\ req'[r].calls = <<"new", "install", "write">>
                     /\ req'[r].id = req[r].id
                     /\ buckets' = buckets
                     /\ buckets[req[r].id] = 0
                     /\ remote'[req[r].id].installed
            /\ (req'[r].calls # <<>> /\ req'[r].calls[1] = "new") =>
                  req'[r].calls \in {<<"new">>, <<"new", "install">>,
                                     <<"new", "install", "write">>}
    ]_vars

\* a call that ran alone on the empty table has provisioned one shard,
\* written its blob to it and returned
C11_Witness ==
    \E r \in Callers :
        /\ req[r].pc = "done"
        /\ req[r].calls = <<"new", "install", "write">>
        /\ \A o \in Callers \ {r} : req[o].pc = "new"
        /\ DOMAIN buckets = {req[r].id}
        /\ buckets[req[r].id] > 0

(***************************************************************************)
(* The bucket store from the empty table.                                  *)
(***************************************************************************)
InitProvision ==
    /\ Fresh
    /\ buckets = EmptyMap
    /\ Quiet
    /\ hooks = "stable"

SpecProvision == InitProvision /\ [][NextBuckets]_vars

\* C12: when a call runs its scan while another call is suspended on the
\* installation of the shard it has inserted, and no record with a smaller
\* id has room left, the scan selects that shard and the blob write to it is
\* issued while its installation has not completed and the other call is
\* still suspended.
C12_SelectsUninstalledShard ==
    [][\A r, o \in Callers :
         (/\ StartStep(r)
          /\ req[o].pc = "installing"
          /\ \A id \in Qualifying : id >= req[o].id) =>
             /\ req'[r].pc = "writing"
             /\ req'[r].id = req[o].id
             /\ req'[r].calls = <<"write">>
             /\ req'[o].pc = "installing"
             /\ ~remote'[req[o].id].installed
    ]_vars

\* a blob write is in flight to a shard whose installation another call is
\* still waiting for
C12_Witness ==
    \E r, o \in Callers :
        /\ r # o
        /\ req[o].pc = "installing"
        /\ req[r].pc = "writing"
        /\ req[r].id = req[o].id
        /\ req[r].calls = <<"write">>
        /\ ~remote[req[r].id].installed

\* call r has returned the error of a failed installation
FailedInstall(r) ==
    req[r].pc = "failed" /\ req[r].calls = <<"new", "install">>

\* C13: a call whose installation fails returns an error with no blob write
\* issued and leaves the table as it is, the record of its shard in it with
\* used_bytes = 0; the record of such a call stays in the table; and a later
\* call for which that record is the first with used_bytes <
\* max_bucket_size selects the shard and issues the blob write to it, with
\* no creation or installation call then or later.
C13_FailedInstallation ==
    [][\A r \in Callers :
         /\ (req[r].pc = "installing" /\ req'[r].pc = "failed") =>
               /\ FailedInstall(r)'
               /\ buckets' = buckets
               /\ req[r].id \in DOMAIN buckets
               /\ buckets[req[r].id] = 0
         /\ FailedInstall(r)' => req'[r].id \in DOMAIN buckets'
         /\ \A o \in Callers :
               (/\ StartStep(r)
                /\ FailedInstall(o)
                /\ Qualifying # {}
                /\ req[o].id = Min(Qualifying)) =>
                   /\ req'[r].pc = "writing"
                   /\ req'[r].id = req[o].id
                   /\ req'[r].calls = <<"write">>
                   /\ buckets' = buckets
         /\ req[r].calls = <<"write">> => req'[r].calls = <<"write">>
    ]_vars

\* the call after a failed installation has selected the shard left behind
\* and issued its blob write to it
C13_Witness ==
    \E r, o \in Callers :
        /\ FailedInstall(o)
        /\ req[r].pc = "writing"
        /\ req[r].calls = <<"write">>
        /\ req[r].id = req[o].id
        /\ buckets[req[o].id] = 0
        /\ ~remote[req[o].id].installed

(***************************************************************************)
(* The allocator under free calls that name no outstanding block.          *)
(***************************************************************************)
\* sizes passed to alloc and free in these runs
FreeSizes == {4, 8}

\* the (offset, size) arguments that are not an outstanding block: freed
\* blocks, parts of blocks, ranges inside free segments and ranges that
\* reach past boundary
InvalidFrees ==
    {<<o, s>> : o \in {a \in INITIAL_OFFSET..boundary : a % 4 = 0},
                s \in FreeSizes} \ allocated

\* a.free(offset, size) with such arguments: the same code runs, none of
\* its expect / assert! conditions fails (every key removed or replaced was
\* just read from the map, and offset + size <= r_start holds by the range
\* of right_segment), and the call returns
InvalidFree(b) ==
    /\ pc = "idle"
    /\ hooks # "none"
    /\ b \in InvalidFrees
    /\ segments' = free(segments, b[1], b[2])
    /\ last' = [op |-> "free", n |-> b[2], offset |-> b[1], ret |-> 0,
                status |-> "ok", grow |-> 0, found |-> FALSE]
    /\ UNCHANGED <<boundary, hooks, MEM_END, pages, mem, buckets, allocated,
                   origin, pc, snap, writes, header0, committed>>

NextInvalidFree ==
    \/ \E n \in FreeSizes :
          /\ Alloc(n)
          /\ boundary' <= origin + MaxExtent
          /\ Counted
    \/ \E b \in allocated : Free(b) /\ Counted
    \/ \E b \in InvalidFrees : InvalidFree(b) /\ Counted

SpecInvalidFree == Init /\ [][NextInvalidFree]_vars

\* C14: free(offset, length) with a range that is not an outstanding block
\* aborts and leaves the free list unchanged.
C14_InvalidFreeAborts ==
    [][(last'.op = "free" /\ <<last'.offset, last'.n>> \notin allocated) =>
          (last'.status = "abort" /\ segments' = segments)
    ]_vars

\* C15: no step of any interleaving of write_to_bucket calls takes a shard
\* id out of the table; a failed creation and a failed blob write return an
\* error and leave the table as it is; the used_bytes of a record changes
\* only in the step that processes the successful response of a blob write
\* to that shard, to the returned offset plus the blob length, and that
\* step changes no other record and adds none.
C15_BucketTableFrame ==
    [][/\ DOMAIN buckets \subseteq DOMAIN buckets'
       /\ \A r \in Callers :
             (req[r].pc \in {"creating", "writing"} /\ req'[r].pc = "failed") =>
                 buckets' = buckets
       /\ \A id \in DOMAIN buckets :
             buckets'[id] # buckets[id] =>
                /\ \E r \in Callers :
                      /\ req[r].pc = "answered" /\ req'[r].pc = "done"
                      /\ req[r].id = id
                      /\ buckets'[id] = req[r].resp + req[r].len
                /\ DOMAIN buckets' = DOMAIN buckets
                /\ \A o \in DOMAIN buckets \ {id} : buckets'[o] = buckets[o]
    ]_vars

\* one blob write has failed and another has been acknowledged while the
\* table holds several records
C15_Witness ==
    \E r, o \in Callers :
        /\ req[r].pc = "failed"
        /\ req[r].calls # <<>>
        /\ req[r].calls[Len(req[r].calls)] = "write"
        /\ req[o].pc = "done"
        /\ Cardinality(DOMAIN buckets) >= 2
        /\ buckets[req[o].id] > 0

(***************************************************************************)
(* Further properties of the allocator and the persistence layer.          *)
(***************************************************************************)
\* C16: alloc(n) never aborts on an allocator state reached through alloc,
\* free, heap_to_stable and stable_to_heap; on the allocator of a root
\* object returned by stable_to_heap it returns an offset.
C16_AllocNeverAborts ==
    last.op = "alloc" => last.status = "ok"

\* C17: boundary never decreases; free changes neither boundary nor the size
\* of the backing store, and the free of the block that ends at boundary
\* leaves a free segment that ends there; an alloc served from a free
\* segment changes neither boundary nor the backing store and calls no
\* mem_grow; an alloc served from the frontier returns the old boundary,
\* advances boundary by exactly n and calls mem_grow at most once, and only
\* when the new boundary >= the size read before the call.
C17_BoundaryGrowthFrame ==
    [][/\ boundary' >= boundary
       /\ last'.op = "free" =>
             /\ boundary' = boundary
             /\ pages' = pages
             /\ MEM_END' = MEM_END
             /\ last'.offset + last'.n = boundary =>
                   \E s \in DOMAIN segments' :
                       s <= last'.offset /\ s + segments'[s] = boundary
       /\ (last'.op = "alloc" /\ last'.found) =>
             /\ boundary' = boundary
             /\ pages' = pages
             /\ MEM_END' = MEM_END
             /\ last'.grow = 0
       /\ (last'.op = "alloc" /\ ~last'.found) =>
             /\ last'.ret = boundary
             /\ boundary' = boundary + last'.n
             /\ last'.grow \in {0, 1}
             /\ last'.grow = 1 =>
                   boundary' >= mem_size(hooks, pages, MEM_END)
             /\ last'.grow = 0 => (pages' = pages /\ MEM_END' = MEM_END)
    ]_vars

\* the block that ends at a boundary advanced by a frontier alloc has been
\* freed
C17_Witness ==
    /\ last.op = "free"
    /\ last.offset + last.n = boundary
    /\ boundary > origin
    /\ \E s \in DOMAIN segments : s + segments[s] = boundary

\* the region [offset, offset + len) holds no byte that the allocator state
\* (segs, bnd) counts as allocated: each of its addresses lies in a free
\* segment or at or past the boundary
NotAllocatedIn(segs, bnd, offset, len) ==
    \A a \in offset..(offset + len - 1) :
        \/ a >= bnd
        \/ \E s \in DOMAIN segs : s <= a /\ a < s + segs[s]

\* C18: no step of heap_to_stable changes the free list or the boundary of
\* the live allocator; the allocator state inside the snapshot it writes,
\* and so the one stable_to_heap returns, is the live one of before the
\* call and does not count the region [root_offset, root_offset +
\* root_length) of the snapshot as allocated.
C18_PersistLeavesAllocator ==
    /\ [][(pc # "idle" \/ pc' # "idle") =>
             (segments' = segments /\ boundary' = boundary)]_vars
    /\ [](pc # "idle" =>
             /\ from_bytes(stable64_read(mem, snap[1], snap[2])).segments
                    = segments
             /\ from_bytes(stable64_read(mem, snap[1], snap[2])).boundary
                    = boundary
             /\ NotAllocatedIn(segments, boundary, snap[1], snap[2]))
    /\ []((pc = "idle" /\ last.op = "persist" /\ last.status = "ok") =>
             /\ stable_to_heap(mem).segments = segments
             /\ stable_to_heap(mem).boundary = boundary
             /\ NotAllocatedIn(stable_to_heap(mem).segments,
                               stable_to_heap(mem).boundary,
                               heap_address(mem)[1], heap_address(mem)[2]))
    /\ []((last.op = "restore" /\ last.status = "ok") =>
             NotAllocatedIn(segments, boundary,
                            heap_address(mem)[1], heap_address(mem)[2]))

\* a heap_to_stable has returned after writing its snapshot into a free
\* segment of the live allocator, which still lists that segment
C18_Witness ==
    /\ pc = "idle" /\ last.op = "persist" /\ last.status = "ok"
    /\ \E s \in DOMAIN segments :
          s <= snap[1] /\ snap[1] + snap[2] <= s + segments[s]

(***************************************************************************)
(* Further properties of the bucket store.                                 *)
(***************************************************************************)
\* a blob write to shard id has been issued and has not returned
InFlight(id) ==
    \E r \in Callers : req[r].pc \in {"writing", "answered"} /\ req[r].id = id

\* C19: for every shard the used_bytes of its record never decreases, and
\* while no blob write to the shard is in flight it equals the end of the
\* data the shard holds.
C19_MonotoneOccupancy ==
    /\ [][\A id \in DOMAIN buckets : buckets'[id] >= buckets[id]]_vars
    /\ [](\A id \in DOMAIN buckets :
             ~InFlight(id) => buckets[id] = remote[id].end)

\* C20: from the empty table, a record is inserted only in a state where no
\* record has used_bytes < max_bucket_size, and the table never holds two
\* records with used_bytes < max_bucket_size.
C20_NoOverProvisioning ==
    /\ [][DOMAIN buckets' # DOMAIN buckets => Qualifying = {}]_vars
    /\ [](Cardinality(Qualifying) <= 1)


=============================================================================
